---- MODULE Spec2Model ----
(***************************************************************************)
(* Model of covert's update-orchestration engine (src/covert/core.py):     *)
(* run_update_session, the per-package worker _update_package, the         *)
(* sequential loop and the thread pool of _update_packages_parallel, the   *)
(* version-policy gate is_breaking_change (src/covert/utils.py) and the    *)
(* derived views of UpdateSession.                                         *)
(*                                                                         *)
(* The package manager, the test runner and the backup writer are          *)
(* out-of-process collaborators: each call is a blocking point of the      *)
(* calling thread, and its outcome is chosen by the environment when the   *)
(* call returns.                                                           *)
(***************************************************************************)
EXTENDS Integers, Sequences, FiniteSets, TLC

VARIABLES
    dry_run,        \* run_update_session argument
    no_backup,      \* run_update_session argument
    no_tests,       \* run_update_session argument
    parallel,       \* run_update_session argument
    config,         \* the Config fields the engine reads
    context,        \* the execution context the security checks look at
    filters,        \* the four name lists _filter_packages is called with
    outcomes,       \* per package: the outcome its collaborator calls are bound to have
    spc,            \* position of the thread running run_update_session
    raised,         \* exception that left run_update_session ("none" if none)
    session,        \* the UpdateSession object
    packages,       \* packages_to_update (the filtered list)
    workers,        \* per package: position of its _update_package call and its UpdateResult
    results,        \* the local list `results` of _update_packages_parallel
    installed,      \* the environment: installed version of each package
    calls,          \* per package: collaborator calls made by its worker, in order
    sessionCalls    \* collaborator calls made by run_update_session itself, in order

vars == <<dry_run, no_backup, no_tests, parallel, config, context, filters, outcomes,
          spc, raised, session, packages, workers, results, installed, calls,
          sessionCalls>>

(***************************************************************************)
(* Bounds of the model.                                                    *)
(***************************************************************************)
NumPkgs == 2          \* at most this many outdated packages
MaxParallel == 2      \* updates.max_parallel ranges over 1..MaxParallel
MaxResults == 3       \* SessionSpec appends at most this many results
MaxRelease == 2       \* GateSpec: a release has at most this many components
MaxComponent == 1     \* GateSpec: a release component ranges over 0..MaxComponent

Names == 1..NumPkgs
None == "None"

(***************************************************************************)
(* Versions.  A version string is kept as its parts: an optional "v"       *)
(* prefix, the dot-separated release numbers, and one optional qualifier.  *)
(***************************************************************************)
Suffixes == {"", "a1", ".dev1", ".post1", "+local", "-rc"}

Ver(rel) == [prefix |-> "", release |-> rel, suffix |-> ""]

VerQ(rel, suf) == [prefix |-> "", release |-> rel, suffix |-> suf]

\* ^1\.0\.0\.0(\.0+)*$
IsOneZeroZeroZero(rel) ==
    /\ Len(rel) >= 4
    /\ rel[1] = 1
    /\ \A i \in 2..Len(rel) : rel[i] = 0

validate_version(v) ==
    /\ v.prefix = ""
    /\ v.suffix # "-rc"
    /\ ~(v.suffix = "" /\ IsOneZeroZeroZero(v.release))

RECURSIVE StripZeros(_)
\* packaging compares releases with their trailing zeros dropped
StripZeros(rel) ==
    IF rel = <<>> THEN rel
    ELSE IF rel[Len(rel)] = 0 THEN StripZeros(SubSeq(rel, 1, Len(rel) - 1))
    ELSE rel

RECURSIVE TupleLess(_, _)
\* Python tuple order: a < b
TupleLess(a, b) ==
    IF b = <<>> THEN FALSE
    ELSE IF a = <<>> THEN TRUE
    ELSE IF a[1] # b[1] THEN a[1] < b[1]
    ELSE TupleLess(Tail(a), Tail(b))

\* packaging's sort key for one qualifier: dev < pre < final < local < post
SuffixRank(s) ==
    CASE s = ".dev1" -> 0
      [] s = "a1" -> 1
      [] s = "" -> 2
      [] s = "+local" -> 3
      [] s = ".post1" -> 4
      [] OTHER -> 1

\* new <= current
VersionLE(a, b) ==
    LET ra == StripZeros(a.release)
        rb == StripZeros(b.release)
    IN  \/ TupleLess(ra, rb)
        \/ ra = rb /\ SuffixRank(a.suffix) <= SuffixRank(b.suffix)

\* parts + (0,) * (max_len - len(parts))
PadRelease(rel, max_len) ==
    [i \in 1..max_len |-> IF i <= Len(rel) THEN rel[i] ELSE 0]

Returns(b) == [raised |-> "none", value |-> b]

Raises(e) == [raised |-> e, value |-> FALSE]

Policies == {"safe", "latest", "minor", "patch", "strict"}

\* The policies whole runs are explored under: the default, under which the
\* minor jump of VersionPairs passes the gate, and patch, under which it is
\* breaking.  GateSpec applies the gate under every name of Policies.
RunPolicies == {"safe", "patch"}

\* is_breaking_change that looks at the policy before it compares the versions
is_breaking_change_PolicyFirst(current_version, new_version, version_policy) ==
    IF ~validate_version(current_version) \/ ~validate_version(new_version)
    THEN Raises("ValidationError")
    ELSE IF version_policy = "latest" THEN Returns(FALSE)
    ELSE IF version_policy \notin {"patch", "minor", "safe"} THEN Returns(TRUE)
    ELSE IF VersionLE(new_version, current_version) THEN Returns(FALSE)
    ELSE
      LET max_len == IF Len(current_version.release) >= Len(new_version.release)
                     THEN Len(current_version.release)
                     ELSE Len(new_version.release)
          current_parts == PadRelease(current_version.release, max_len)
          new_parts == PadRelease(new_version.release, max_len)
      IN  IF version_policy = "patch"
          THEN IF current_parts[1] # new_parts[1] THEN Returns(TRUE)
               ELSE IF max_len < 2 THEN Raises("IndexError")
               ELSE Returns(~(current_parts[2] = new_parts[2]))
          ELSE Returns(current_parts[1] # new_parts[1])

\* is_breaking_change without the `if new <= current` test
is_breaking_change_NoBackwardTest(current_version, new_version, version_policy) ==
    IF ~validate_version(current_version) \/ ~validate_version(new_version)
    THEN Raises("ValidationError")
    ELSE IF version_policy = "latest" THEN Returns(FALSE)
    ELSE
      LET max_len == IF Len(current_version.release) >= Len(new_version.release)
                     THEN Len(current_version.release)
                     ELSE Len(new_version.release)
          current_parts == PadRelease(current_version.release, max_len)
          new_parts == PadRelease(new_version.release, max_len)
      IN  IF version_policy = "patch"
          THEN IF current_parts[1] # new_parts[1] THEN Returns(TRUE)
               ELSE IF max_len < 2 THEN Raises("IndexError")
               ELSE Returns(~(current_parts[2] = new_parts[2]))
          ELSE IF version_policy \in {"minor", "safe"}
          THEN Returns(current_parts[1] # new_parts[1])
          ELSE Returns(TRUE)

\* is_breaking_change whose policy safe lets only unchanged releases through
is_breaking_change_SafeStrict(current_version, new_version, version_policy) ==
    IF ~validate_version(current_version) \/ ~validate_version(new_version)
    THEN Raises("ValidationError")
    ELSE IF VersionLE(new_version, current_version) THEN Returns(FALSE)
    ELSE IF version_policy = "latest" THEN Returns(FALSE)
    ELSE
      LET max_len == IF Len(current_version.release) >= Len(new_version.release)
                     THEN Len(current_version.release)
                     ELSE Len(new_version.release)
          current_parts == PadRelease(current_version.release, max_len)
          new_parts == PadRelease(new_version.release, max_len)
      IN  IF version_policy = "patch"
          THEN IF current_parts[1] # new_parts[1] THEN Returns(TRUE)
               ELSE IF max_len < 2 THEN Raises("IndexError")
               ELSE Returns(~(current_parts[2] = new_parts[2]))
          ELSE IF version_policy = "minor"
          THEN Returns(current_parts[1] # new_parts[1])
          ELSE IF version_policy = "safe"
          THEN Returns(current_parts # new_parts)
          ELSE Returns(TRUE)

is_breaking_change(current_version, new_version, version_policy) ==
    IF ~validate_version(current_version) \/ ~validate_version(new_version)
    THEN Raises("ValidationError")
    ELSE IF VersionLE(new_version, current_version) THEN Returns(FALSE)
    ELSE IF version_policy = "latest" THEN Returns(FALSE)
    ELSE
      LET max_len == IF Len(current_version.release) >= Len(new_version.release)
                     THEN Len(current_version.release)
                     ELSE Len(new_version.release)
          current_parts == PadRelease(current_version.release, max_len)
          new_parts == PadRelease(new_version.release, max_len)
      IN  IF version_policy = "patch"
          THEN IF current_parts[1] # new_parts[1] THEN Returns(TRUE)
               ELSE IF max_len < 2 THEN Raises("IndexError")
               ELSE Returns(~(current_parts[2] = new_parts[2]))
          ELSE IF version_policy = "minor"
          THEN Returns(current_parts[1] # new_parts[1])
          ELSE IF version_policy = "safe"
          THEN Returns(current_parts[1] # new_parts[1])
          ELSE Returns(TRUE)

(***************************************************************************)
(* UpdateStatus, UpdateResult and the derived views of UpdateSession.      *)
(***************************************************************************)
UpdateStatus ==
    {"updated", "rolled_back", "failed_install", "critical_failure", "skipped", "pending"}

UpdateResult(pkg, status, err, out, passed) ==
    [package |-> pkg, status |-> status, error_message |-> err,
     test_output |-> out, test_passed |-> passed]

RECURSIVE CountStatus(_, _)
\* the loop `for result in self.results: stats[result.status.value] += 1`
CountStatus(rs, s) ==
    IF rs = <<>> THEN 0
    ELSE (IF Head(rs).status = s THEN 1 ELSE 0) + CountStatus(Tail(rs), s)

\* summary without the PENDING member of the enumeration
summary_NoPending(sess) ==
    [s \in UpdateStatus \ {"pending"} |-> CountStatus(sess.results, s)]

summary(sess) == [s \in UpdateStatus |-> CountStatus(sess.results, s)]

\* success that also counts failed installs as failures
success_Strict(sess) ==
    summary(sess)["critical_failure"] = 0 /\ summary(sess)["failed_install"] = 0

success(sess) == summary(sess)["critical_failure"] = 0

updated_count(sess) == summary(sess)["updated"]

(***************************************************************************)
(* PackageSelector: _filter_packages.  A name list is a set of names, or   *)
(* None when the caller passed no list.                                    *)
(***************************************************************************)
NoList == [given |-> FALSE, names |-> {}]

NameList(S) == [given |-> TRUE, names |-> S]

\* Python truth of an Optional[List[str]]: neither None nor empty
Truthy(l) == l.given /\ l.names # {}

\* Survives with the lists of the invocation taking the place of those of the
\* configuration whenever they are given
Survives_CliReplacesConfig(name, config_ignore, config_allow, cli_ignore, cli_allow) ==
    LET ignore == IF Truthy(cli_ignore) THEN cli_ignore ELSE config_ignore
        allow == IF Truthy(cli_allow) THEN cli_allow ELSE config_allow
    IN  /\ ~(Truthy(ignore) /\ name \in ignore.names)
        /\ ~(Truthy(allow) /\ name \notin allow.names)

\* the body of the loop: TRUE when pkg is appended to `filtered`
Survives(name, config_ignore, config_allow, cli_ignore, cli_allow) ==
    /\ ~(Truthy(config_ignore) /\ name \in config_ignore.names)
    /\ ~(Truthy(cli_ignore) /\ name \in cli_ignore.names)
    /\ ~(Truthy(config_allow) /\ name \notin config_allow.names)
    /\ ~(Truthy(cli_allow) /\ name \notin cli_allow.names)

RECURSIVE _filter_packages(_, _, _, _, _)
_filter_packages(pkgs, config_ignore, config_allow, cli_ignore, cli_allow) ==
    IF pkgs = <<>> THEN <<>>
    ELSE LET rest == _filter_packages(Tail(pkgs), config_ignore, config_allow,
                                      cli_ignore, cli_allow)
         IN  IF Survives(Head(pkgs).name, config_ignore, config_allow,
                         cli_ignore, cli_allow)
             THEN <<Head(pkgs)>> \o rest
             ELSE rest

(***************************************************************************)
(* Inputs of a run.                                                        *)
(***************************************************************************)
\* (installed, latest) pairs pip may report: a minor jump, and an installed
\* version that validate_version rejects
VersionPairs ==
    { <<Ver(<<1, 0, 0>>), Ver(<<1, 1, 0>>)>>,
      <<Ver(<<1, 0, 0, 0>>), Ver(<<1, 0, 0, 1>>)>> }

PackageData(n, pair) == [name |-> n, version |-> pair[1], latest_version |-> pair[2]]

\* the lists get_outdated_packages may return: packages 1..k, k <= NumPkgs
OutdatedLists ==
    UNION { { [i \in 1..k |-> PackageData(i, f[i])] : f \in [1..k -> VersionPairs] }
            : k \in 0..NumPkgs }

IgnoreLists == {NameList({}), NameList({1})}

OptionalLists == {NoList, NameList({1})}

NoVersion == Ver(<<>>)

\* the environment's record of one package
Untracked == [state |-> "untracked", version |-> NoVersion]

Absent == [state |-> "absent", version |-> NoVersion]

InstalledAt(v) == [state |-> "installed", version |-> v]

Call(op, v) == [op |-> op, version |-> v]

NoPackage == [name |-> 0, version |-> NoVersion, latest_version |-> NoVersion]

NoResult == UpdateResult(NoPackage, "pending", None, None, FALSE)

Idle == [pc |-> "none", result |-> NoResult]

\* name lists that are drawn when step 5 reads them
OpenFilters ==
    [fixed |-> FALSE, config_ignore |-> NameList({}), config_allow |-> NoList,
     cli_ignore |-> NoList, cli_allow |-> NoList]

\* name lists known from the start of the run
FixedFilters(config_ignore, config_allow, cli_ignore, cli_allow) ==
    [fixed |-> TRUE, config_ignore |-> config_ignore, config_allow |-> config_allow,
     cli_ignore |-> cli_ignore, cli_allow |-> cli_allow]

\* the lists step 5 may find in config.updates and in the arguments of the run
FilterArgs ==
    IF filters.fixed THEN {filters}
    ELSE {FixedFilters(a, b, c, d) :
             a \in IgnoreLists, b \in OptionalLists, c \in OptionalLists, d \in OptionalLists}

\* The six courses a worker's collaborator calls can take; "any" leaves the
\* outcome of each call open until the call returns.
Courses ==
    {"install_fails", "tests_pass", "tests_raise", "uninstall_fails",
     "reinstall_fails", "reinstall_ok"}

InstallOutcomes(n) ==
    IF outcomes[n] = "any" THEN BOOLEAN ELSE {outcomes[n] # "install_fails"}

TestOutcomes(n) ==
    CASE outcomes[n] = "any" -> {"pass", "fail", "raise"}
      [] outcomes[n] = "tests_pass" -> {"pass"}
      [] outcomes[n] = "tests_raise" -> {"raise"}
      [] OTHER -> {"fail"}

UninstallOutcomes(n) ==
    IF outcomes[n] = "any" THEN BOOLEAN ELSE {outcomes[n] # "uninstall_fails"}

ReinstallOutcomes(n) ==
    IF outcomes[n] = "any" THEN BOOLEAN ELSE {outcomes[n] # "reinstall_fails"}

NewSession(dry) ==
    [end_time |-> None, backup_file |-> None, results |-> <<>>,
     pre_test_passed |-> FALSE, dry_run |-> dry]

Init ==
    /\ dry_run \in BOOLEAN
    /\ no_backup \in BOOLEAN
    /\ no_tests \in BOOLEAN
    /\ parallel \in BOOLEAN
    /\ config \in [testing_enabled : BOOLEAN,
                   require_virtualenv : BOOLEAN,
                   version_policy : RunPolicies,
                   max_parallel : 1..MaxParallel]
    /\ context \in [in_virtualenv : BOOLEAN, elevated : BOOLEAN]
    /\ filters = OpenFilters
    /\ outcomes = [n \in Names |-> "any"]
    /\ spc = "security"
    /\ raised = "none"
    /\ session = NewSession(dry_run)
    /\ packages = <<>>
    /\ workers = [n \in Names |-> Idle]
    /\ results = <<>>
    /\ installed = [n \in Names |-> Untracked]
    /\ calls = [n \in Names |-> <<>>]
    /\ sessionCalls = <<>>

inputs == <<dry_run, no_backup, no_tests, parallel, config, context, filters, outcomes>>

workerVars == <<workers, results, installed, calls>>

(***************************************************************************)
(* run_update_session, up to the scheduling of the packages.               *)
(***************************************************************************)
\* `except (SecurityError, ValidationError, UpdateError)`: end_time is set, then re-raised
Abort(e) ==
    /\ spc' = "raised"
    /\ raised' = e
    /\ session' = [session EXCEPT !.end_time = "set"]

\* any other exception leaves run_update_session without passing the except clause
Propagate(e) ==
    /\ spc' = "raised"
    /\ raised' = e
    /\ UNCHANGED session

\* SecurityCheck without step 2, the check for elevated privileges
SecurityCheck_NoElevatedCheck ==
    /\ spc = "security"
    /\ IF config.require_virtualenv /\ ~context.in_virtualenv THEN Abort("SecurityError")
       ELSE spc' = "preflight" /\ UNCHANGED <<raised, session>>
    /\ UNCHANGED <<inputs, packages, workerVars, sessionCalls>>

\* Steps 1 and 2: is_in_virtualenv() and check_elevated_privileges()
SecurityCheck ==
    /\ spc = "security"
    /\ IF config.require_virtualenv /\ ~context.in_virtualenv THEN Abort("SecurityError")
       ELSE IF context.elevated THEN Abort("SecurityError")
       ELSE spc' = "preflight" /\ UNCHANGED <<raised, session>>
    /\ UNCHANGED <<inputs, packages, workerVars, sessionCalls>>

TestsEnabled == ~no_tests /\ config.testing_enabled

\* PreflightTest that records a failed pre-flight run and carries on
PreflightTest_NoAbort ==
    /\ spc = "preflight"
    /\ IF TestsEnabled
       THEN /\ sessionCalls' = Append(sessionCalls, "run_tests")
            /\ \E outcome \in {"pass", "fail", "raise"} :
                  IF outcome = "raise" THEN Propagate("TestError")
                  ELSE /\ session' = [session EXCEPT !.pre_test_passed = (outcome = "pass")]
                       /\ spc' = "backup"
                       /\ UNCHANGED raised
       ELSE /\ spc' = "backup"
            /\ UNCHANGED <<raised, session, sessionCalls>>
    /\ UNCHANGED <<inputs, packages, workerVars>>

\* Step 3: the pre-flight run of the test suite
PreflightTest ==
    /\ spc = "preflight"
    /\ IF TestsEnabled
       THEN /\ sessionCalls' = Append(sessionCalls, "run_tests")
            /\ \E outcome \in {"pass", "fail", "raise"} :
                  CASE outcome = "pass" ->
                         /\ session' = [session EXCEPT !.pre_test_passed = TRUE]
                         /\ spc' = "backup"
                         /\ UNCHANGED raised
                    [] outcome = "fail" ->
                         /\ spc' = "raised"
                         /\ raised' = "UpdateError"
                         /\ session' = [session EXCEPT !.pre_test_passed = FALSE,
                                                       !.end_time = "set"]
                    [] outcome = "raise" -> Propagate("TestError")
       ELSE /\ spc' = "backup"
            /\ UNCHANGED <<raised, session, sessionCalls>>
    /\ UNCHANGED <<inputs, packages, workerVars>>

\* CreateBackup whose condition leaves out `not dry_run`
CreateBackup_InDryRun ==
    /\ spc = "backup"
    /\ IF ~no_backup
       THEN /\ sessionCalls' = Append(sessionCalls, "create_backup")
            /\ \E outcome \in {"path", "", "raise"} :
                  IF outcome = "raise" THEN Propagate("BackupError")
                  ELSE /\ session' = [session EXCEPT !.backup_file = outcome]
                       /\ spc' = "fetch"
                       /\ UNCHANGED raised
       ELSE /\ spc' = "fetch"
            /\ UNCHANGED <<raised, session, sessionCalls>>
    /\ UNCHANGED <<inputs, packages, workerVars>>

\* Step 4: create_backup returns the path, "" when backups are disabled, or raises
CreateBackup ==
    /\ spc = "backup"
    /\ IF ~no_backup /\ ~dry_run
       THEN /\ sessionCalls' = Append(sessionCalls, "create_backup")
            /\ \E outcome \in {"path", "", "raise"} :
                  IF outcome = "raise" THEN Propagate("BackupError")
                  ELSE /\ session' = [session EXCEPT !.backup_file = outcome]
                       /\ spc' = "fetch"
                       /\ UNCHANGED raised
       ELSE /\ spc' = "fetch"
            /\ UNCHANGED <<raised, session, sessionCalls>>
    /\ UNCHANGED <<inputs, packages, workerVars>>

\* Step 5: get_outdated_packages, _filter_packages, and entry into step 6
GetOutdated ==
    /\ spc = "fetch"
    /\ sessionCalls' = Append(sessionCalls, "get_outdated_packages")
    /\ \/ /\ Propagate("PipError")
          /\ UNCHANGED <<packages, workers, installed>>
       \/ \E outdated_packages \in OutdatedLists, f \in FilterArgs :
            LET packages_to_update ==
                    _filter_packages(outdated_packages, f.config_ignore, f.config_allow,
                                     f.cli_ignore, f.cli_allow)
            IN  /\ installed' = [n \in Names |->
                                   IF n \in 1..Len(outdated_packages)
                                   THEN InstalledAt(outdated_packages[n].version)
                                   ELSE Untracked]
                /\ packages' = packages_to_update
                /\ IF packages_to_update = <<>>
                   THEN /\ spc' = "returned"
                        /\ session' = [session EXCEPT !.end_time = "set"]
                        /\ UNCHANGED workers
                   ELSE /\ spc' = "update"
                        /\ workers' = [n \in Names |->
                              IF \E i \in 1..Len(packages_to_update) :
                                     packages_to_update[i].name = n
                              THEN [pc |-> "queued", result |-> NoResult]
                              ELSE Idle]
                        /\ UNCHANGED session
                /\ UNCHANGED raised
    /\ UNCHANGED <<inputs, results, calls>>

(***************************************************************************)
(* PackageUpgradeWorker: _update_package.  A worker runs from one blocking *)
(* collaborator call to the next; its pc names the call it is blocked in.  *)
(***************************************************************************)
Blocking == {"installing", "testing", "uninstalling", "reinstalling"}

PackageOf(n) == packages[CHOOSE i \in 1..Len(packages) : packages[i].name = n]

Finished(result) == [pc |-> "finished", result |-> result]

\* Failed with an except clause that sets the status and drops the message
Failed_NoMessage(result, status, e) == Finished([result EXCEPT !.status = status])

Failed(result, status, e) ==
    Finished([result EXCEPT !.status = status, !.error_message = e])

\* StartUpdate without the `if dry_run` branch
StartUpdate_NoDryRun(package) ==
    LET is_breaking == is_breaking_change(package.version, package.latest_version,
                                          config.version_policy)
        result == UpdateResult(package, "pending", None, None, FALSE)
    IN  IF is_breaking.raised # "none"
        THEN Failed(result, "failed_install", is_breaking.raised)
        ELSE IF is_breaking.value THEN Finished([result EXCEPT !.status = "skipped"])
        ELSE [pc |-> "installing", result |-> result]

\* StartUpdate with the `if dry_run` branch taken before the version policy is checked
StartUpdate_DryRunFirst(package) ==
    LET is_breaking == is_breaking_change(package.version, package.latest_version,
                                          config.version_policy)
        result == UpdateResult(package, "pending", None, None, FALSE)
    IN  IF dry_run THEN Finished([result EXCEPT !.status = "updated"])
        ELSE IF is_breaking.raised # "none"
        THEN Failed(result, "failed_install", is_breaking.raised)
        ELSE IF is_breaking.value THEN Finished([result EXCEPT !.status = "skipped"])
        ELSE [pc |-> "installing", result |-> result]

\* StartUpdate that logs the breaking change and installs all the same
StartUpdate_NoSkip(package) ==
    LET is_breaking == is_breaking_change(package.version, package.latest_version,
                                          config.version_policy)
        result == UpdateResult(package, "pending", None, None, FALSE)
    IN  IF is_breaking.raised # "none"
        THEN Failed(result, "failed_install", is_breaking.raised)
        ELSE IF dry_run THEN Finished([result EXCEPT !.status = "updated"])
        ELSE [pc |-> "installing", result |-> result]

\* from entry to the call install_package(name, version=latest_version)
StartUpdate(package) ==
    LET is_breaking == is_breaking_change(package.version, package.latest_version,
                                          config.version_policy)
        result == UpdateResult(package, "pending", None, None, FALSE)
    IN  IF is_breaking.raised # "none"
        THEN Failed(result, "failed_install", is_breaking.raised)
        ELSE IF is_breaking.value THEN Finished([result EXCEPT !.status = "skipped"])
        ELSE IF dry_run THEN Finished([result EXCEPT !.status = "updated"])
        ELSE [pc |-> "installing", result |-> result]

\* AfterInstall with the failure of install_package swallowed
AfterInstall_IgnoreFailure(w, ok) ==
    IF TestsEnabled THEN [pc |-> "testing", result |-> w.result]
    ELSE Finished([w.result EXCEPT !.status = "updated"])

\* install_package(latest_version) returned (ok) or raised
AfterInstall(w, ok) ==
    IF ~ok THEN Failed(w.result, "failed_install", "Failed to install package")
    ELSE IF TestsEnabled THEN [pc |-> "testing", result |-> w.result]
    ELSE Finished([w.result EXCEPT !.status = "updated"])

\* AfterTests without the `if not test_result.success` branch: a failed run is not rolled back
AfterTests_NoRollback(w, outcome) ==
    CASE outcome = "pass" ->
           Finished([w.result EXCEPT !.test_output = "output", !.test_passed = TRUE,
                                     !.status = "updated"])
      [] outcome = "fail" ->
           Finished([w.result EXCEPT !.test_output = "output", !.test_passed = FALSE,
                                     !.status = "updated"])
      [] outcome = "raise" ->
           Failed(w.result, "failed_install", "Tests timed out")

\* run_tests returned success=True ("pass"), success=False ("fail"), or raised TestError
AfterTests(w, outcome) ==
    CASE outcome = "pass" ->
           Finished([w.result EXCEPT !.test_output = "output", !.test_passed = TRUE,
                                     !.status = "updated"])
      [] outcome = "fail" ->
           [pc |-> "uninstalling",
            result |-> [w.result EXCEPT !.test_output = "output", !.test_passed = FALSE]]
      [] outcome = "raise" ->
           Failed(w.result, "failed_install", "Tests timed out")

\* AfterUninstall with the failure of uninstall_package swallowed
AfterUninstall_IgnoreFailure(w, ok) == [pc |-> "reinstalling", result |-> w.result]

\* uninstall_package returned (ok) or raised
AfterUninstall(w, ok) ==
    IF ok THEN [pc |-> "reinstalling", result |-> w.result]
    ELSE Failed(w.result, "critical_failure", "Failed to uninstall package")

\* AfterReinstall that reports rolled_back whether the reinstall succeeded or not
AfterReinstall_IgnoreFailure(w, ok) == Finished([w.result EXCEPT !.status = "rolled_back"])

\* AfterReinstall that returns after a good rollback without setting the status
AfterReinstall_NoStatus(w, ok) ==
    IF ok THEN Finished(w.result)
    ELSE Failed(w.result, "critical_failure", "Failed to install package")

\* install_package(old_version) returned (ok) or raised
AfterReinstall(w, ok) ==
    IF ok THEN Finished([w.result EXCEPT !.status = "rolled_back"])
    ELSE Failed(w.result, "critical_failure", "Failed to install package")

\* the collaborator call a worker at pc is blocked in
CallAt(package, pc) ==
    CASE pc = "installing" -> Call("install", package.latest_version)
      [] pc = "testing" -> Call("run_tests", NoVersion)
      [] pc = "uninstalling" -> Call("uninstall", NoVersion)
      [] pc = "reinstalling" -> Call("install", package.version)

\* the worker of package n moves on to w2, making the call w2 blocks in
Advance(n, w2) ==
    /\ workers' = [workers EXCEPT ![n] = w2]
    /\ calls' = [calls EXCEPT ![n] =
                    IF w2.pc \in Blocking THEN Append(@, CallAt(PackageOf(n), w2.pc))
                    ELSE @]

sessionVars == <<inputs, spc, raised, session, packages, sessionCalls>>

InstallReturns(n) ==
    /\ spc = "update"
    /\ workers[n].pc = "installing"
    /\ \E ok \in InstallOutcomes(n) :
          /\ Advance(n, AfterInstall(workers[n], ok))
          /\ installed' = IF ok
                          THEN [installed EXCEPT ![n] = InstalledAt(PackageOf(n).latest_version)]
                          ELSE installed
    /\ UNCHANGED <<sessionVars, results>>

TestsReturn(n) ==
    /\ spc = "update"
    /\ workers[n].pc = "testing"
    /\ \E outcome \in TestOutcomes(n) :
          Advance(n, AfterTests(workers[n], outcome))
    /\ UNCHANGED <<sessionVars, results, installed>>

UninstallReturns(n) ==
    /\ spc = "update"
    /\ workers[n].pc = "uninstalling"
    /\ \E ok \in UninstallOutcomes(n) :
          /\ Advance(n, AfterUninstall(workers[n], ok))
          /\ installed' = IF ok THEN [installed EXCEPT ![n] = Absent] ELSE installed
    /\ UNCHANGED <<sessionVars, results>>

ReinstallReturns(n) ==
    /\ spc = "update"
    /\ workers[n].pc = "reinstalling"
    /\ \E ok \in ReinstallOutcomes(n) :
          /\ Advance(n, AfterReinstall(workers[n], ok))
          /\ installed' = IF ok
                          THEN [installed EXCEPT ![n] = InstalledAt(PackageOf(n).version)]
                          ELSE installed
    /\ UNCHANGED <<sessionVars, results>>

(***************************************************************************)
(* UpgradeScheduler: the sequential loop of run_update_session and the     *)
(* thread pool of _update_packages_parallel.                               *)
(***************************************************************************)
Queued(n) == workers[n].pc = "queued"

\* the thread of the worker of n is inside _update_package ("hung": blocked
\* for ever in a pip call, see LiveSpec)
Active(n) == workers[n].pc \in Blocking \cup {"hung"}

\* the first package of the list that has not been started
IsNextQueued(n) ==
    \E i \in 1..Len(packages) :
        /\ packages[i].name = n
        /\ Queued(n)
        /\ \A j \in 1..(i - 1) : ~Queued(packages[j].name)

\* SeqStart of a loop that does not wait for the previous _update_package call
SeqStart_NoWait(n) ==
    /\ spc = "update"
    /\ ~parallel
    /\ IsNextQueued(n)
    /\ Advance(n, StartUpdate(PackageOf(n)))
    /\ UNCHANGED <<sessionVars, results, installed>>

\* `for pkg_data in packages_to_update`: the loop calls _update_package for the next package
SeqStart(n) ==
    /\ spc = "update"
    /\ ~parallel
    /\ IsNextQueued(n)
    /\ \A m \in Names : workers[m].pc \in {"none", "queued", "collected"}
    /\ Advance(n, StartUpdate(PackageOf(n)))
    /\ UNCHANGED <<sessionVars, results, installed>>

\* `session.results.append(result)` once _update_package has returned
SeqCollect(n) ==
    /\ spc = "update"
    /\ ~parallel
    /\ workers[n].pc = "finished"
    /\ session' = [session EXCEPT !.results = Append(@, workers[n].result)]
    /\ workers' = [workers EXCEPT ![n].pc = "collected"]
    /\ UNCHANGED <<inputs, spc, raised, packages, sessionCalls, results, installed, calls>>

\* ParStart of a pool that starts a thread for every submitted task
ParStart_Unbounded(n) ==
    /\ spc = "update"
    /\ parallel
    /\ IsNextQueued(n)
    /\ Advance(n, StartUpdate(PackageOf(n)))
    /\ UNCHANGED <<sessionVars, results, installed>>

\* ParStart of a run that uses the pool when the flag or config.updates.strategy asks for it
ParStart_ByStrategy(n) ==
    /\ spc = "update"
    /\ parallel \/ config.strategy = "parallel"
    /\ IsNextQueued(n)
    /\ Cardinality({m \in Names : Active(m)}) < config.max_parallel
    /\ Advance(n, StartUpdate(PackageOf(n)))
    /\ UNCHANGED <<sessionVars, results, installed>>

\* ParStart of workers that hold a lock on the environment from start to return
ParStart_Exclusive(n) ==
    /\ spc = "update"
    /\ parallel
    /\ IsNextQueued(n)
    /\ \A m \in Names : ~Active(m)
    /\ Advance(n, StartUpdate(PackageOf(n)))
    /\ UNCHANGED <<sessionVars, results, installed>>

\* a free thread of the pool takes the next submitted task
ParStart(n) ==
    /\ spc = "update"
    /\ parallel
    /\ IsNextQueued(n)
    /\ Cardinality({m \in Names : Active(m)}) < config.max_parallel
    /\ Advance(n, StartUpdate(PackageOf(n)))
    /\ UNCHANGED <<sessionVars, results, installed>>

\* ParCollect whose append is lost when another future has completed meanwhile
ParCollect_LostAppend(n) ==
    /\ spc = "update"
    /\ parallel
    /\ workers[n].pc = "finished"
    /\ results' = IF \E m \in Names \ {n} : workers[m].pc = "finished"
                  THEN results
                  ELSE Append(results, workers[n].result)
    /\ workers' = [workers EXCEPT ![n].pc = "collected"]
    /\ UNCHANGED <<sessionVars, installed, calls>>

\* as_completed yields a finished future; its result is appended to `results`
ParCollect(n) ==
    /\ spc = "update"
    /\ parallel
    /\ workers[n].pc = "finished"
    /\ results' = Append(results, workers[n].result)
    /\ workers' = [workers EXCEPT ![n].pc = "collected"]
    /\ UNCHANGED <<sessionVars, installed, calls>>

\* ReturnSession with a sequential loop that stops at the first critical failure
ReturnSession_StopOnFailure ==
    /\ spc = "update"
    /\ \/ \A n \in Names : workers[n].pc \in {"none", "collected"}
       \/ /\ ~parallel
          /\ \A n \in Names : workers[n].pc \in {"none", "queued", "collected"}
          /\ \E n \in Names :
                workers[n].pc = "collected" /\ workers[n].result.status = "critical_failure"
    /\ session' = [session EXCEPT !.results = IF parallel THEN @ \o results ELSE @,
                                  !.end_time = "set"]
    /\ spc' = "returned"
    /\ UNCHANGED <<inputs, raised, packages, sessionCalls, workerVars>>

\* every package is done: session.results.extend(results) in parallel mode,
\* session.end_time is set and the session is returned
ReturnSession ==
    /\ spc = "update"
    /\ \A n \in Names : workers[n].pc \in {"none", "collected"}
    /\ session' = [session EXCEPT !.results = IF parallel THEN @ \o results ELSE @,
                                  !.end_time = "set"]
    /\ spc' = "returned"
    /\ UNCHANGED <<inputs, raised, packages, sessionCalls, workerVars>>

Next ==
    \/ SecurityCheck
    \/ PreflightTest
    \/ CreateBackup
    \/ GetOutdated
    \/ \E n \in Names : SeqStart(n)
    \/ \E n \in Names : ParStart(n)
    \/ \E n \in Names : InstallReturns(n)
    \/ \E n \in Names : TestsReturn(n)
    \/ \E n \in Names : UninstallReturns(n)
    \/ \E n \in Names : ReinstallReturns(n)
    \/ \E n \in Names : SeqCollect(n)
    \/ \E n \in Names : ParCollect(n)
    \/ ReturnSession

Spec == Init /\ [][Next]_vars

(***************************************************************************)
(* The version-policy gate: GateSpec starts where the sequential loop of a *)
(* dry-run calls _update_package for one package, whose two versions and   *)
(* the policy are any of the bounded domain; the worker applies            *)
(* is_breaking_change and returns at once with the verdict in its status.  *)
(***************************************************************************)
GateReleases == UNION {[1..k -> 0..MaxComponent] : k \in 1..MaxRelease}

GateVersions == {VerQ(rel, suf) : rel \in GateReleases, suf \in Suffixes}

GateInit ==
    /\ dry_run = TRUE
    /\ no_backup = TRUE
    /\ no_tests = TRUE
    /\ parallel = FALSE
    /\ config \in [testing_enabled : {FALSE},
                   require_virtualenv : {TRUE},
                   version_policy : Policies,
                   max_parallel : {1}]
    /\ context = [in_virtualenv |-> TRUE, elevated |-> FALSE]
    /\ filters = OpenFilters
    /\ outcomes = [n \in Names |-> "any"]
    /\ spc = "update"
    /\ raised = "none"
    /\ session = NewSession(TRUE)
    /\ \E current \in GateVersions, new \in GateVersions :
          /\ packages = <<PackageData(1, <<current, new>>)>>
          /\ installed = [n \in Names |-> IF n = 1 THEN InstalledAt(current) ELSE Untracked]
    /\ workers = [n \in Names |-> IF n = 1 THEN [pc |-> "queued", result |-> NoResult]
                                  ELSE Idle]
    /\ results = <<>>
    /\ calls = [n \in Names |-> <<>>]
    /\ sessionCalls = <<"get_outdated_packages">>

GateNext == \E n \in Names : SeqStart(n)

GateSpec == GateInit /\ [][GateNext]_vars

(***************************************************************************)
(* Packages that pip reports with a latest version that is not greater     *)
(* than the installed one: BackwardSpec is the sequential loop of a run    *)
(* that is not a dry-run, with verification enabled, over one such         *)
(* package, under every policy name.  The versions are final releases,     *)
(* releases with a qualifier that sorts before the final release (.dev1)   *)
(* and releases with one that sorts after it (.post1).                     *)
(***************************************************************************)
BackwardVersions == {VerQ(rel, suf) : rel \in GateReleases, suf \in {"", ".dev1", ".post1"}}

BackwardInit ==
    /\ dry_run = FALSE
    /\ no_backup = TRUE
    /\ no_tests = FALSE
    /\ parallel = FALSE
    /\ config \in [testing_enabled : {TRUE},
                   require_virtualenv : {TRUE},
                   version_policy : Policies,
                   max_parallel : {1}]
    /\ context = [in_virtualenv |-> TRUE, elevated |-> FALSE]
    /\ filters = OpenFilters
    /\ outcomes = [n \in Names |-> "any"]
    /\ spc = "update"
    /\ raised = "none"
    /\ session = [NewSession(FALSE) EXCEPT !.pre_test_passed = TRUE]
    /\ \E current \in BackwardVersions, new \in BackwardVersions :
          /\ VersionLE(new, current)
          /\ packages = <<PackageData(1, <<current, new>>)>>
          /\ installed = [n \in Names |-> IF n = 1 THEN InstalledAt(current) ELSE Untracked]
    /\ workers = [n \in Names |-> IF n = 1 THEN [pc |-> "queued", result |-> NoResult]
                                  ELSE Idle]
    /\ results = <<>>
    /\ calls = [n \in Names |-> <<>>]
    /\ sessionCalls = <<"run_tests", "get_outdated_packages">>

BackwardNext ==
    \/ \E n \in Names : SeqStart(n)
    \/ \E n \in Names : InstallReturns(n)
    \/ \E n \in Names : TestsReturn(n)
    \/ \E n \in Names : UninstallReturns(n)
    \/ \E n \in Names : ReinstallReturns(n)
    \/ \E n \in Names : SeqCollect(n)
    \/ ReturnSession

BackwardSpec == BackwardInit /\ [][BackwardNext]_vars

(***************************************************************************)
(* The package selector: FilterSpec starts at step 5 of a sequential run   *)
(* without verification and backup, under the policy latest, with every    *)
(* install succeeding, and with the four name lists known from the start:  *)
(* any list of names for config.updates.ignore_packages, and None or any   *)
(* list of names (the empty one included) for each of the other three.     *)
(***************************************************************************)
AnyLists == {NameList(S) : S \in SUBSET Names}

FilterInit ==
    /\ dry_run = FALSE
    /\ no_backup = TRUE
    /\ no_tests = TRUE
    /\ parallel = FALSE
    /\ config = [testing_enabled |-> FALSE, require_virtualenv |-> TRUE,
                 version_policy |-> "latest", max_parallel |-> 1]
    /\ context = [in_virtualenv |-> TRUE, elevated |-> FALSE]
    /\ filters \in {FixedFilters(a, b, c, d) :
                       a \in AnyLists, b \in AnyLists \cup {NoList},
                       c \in AnyLists \cup {NoList}, d \in AnyLists \cup {NoList}}
    /\ outcomes = [n \in Names |-> "tests_pass"]
    /\ spc = "fetch"
    /\ raised = "none"
    /\ session = NewSession(FALSE)
    /\ packages = <<>>
    /\ workers = [n \in Names |-> Idle]
    /\ results = <<>>
    /\ installed = [n \in Names |-> Untracked]
    /\ calls = [n \in Names |-> <<>>]
    /\ sessionCalls = <<>>

FilterNext ==
    \/ GetOutdated
    \/ \E n \in Names : SeqStart(n)
    \/ \E n \in Names : InstallReturns(n)
    \/ \E n \in Names : SeqCollect(n)
    \/ ReturnSession

FilterSpec == FilterInit /\ [][FilterNext]_vars

(***************************************************************************)
(* The pool on its own: PoolSpec starts where _update_packages_parallel is *)
(* called, with verification enabled, under the policies safe and patch,   *)
(* and with the course of every                                            *)
(* package's collaborator calls fixed beforehand, so that its behaviours   *)
(* differ in the interleaving of the workers only.                         *)
(***************************************************************************)
PoolInit ==
    /\ dry_run = FALSE
    /\ no_backup = TRUE
    /\ no_tests = FALSE
    /\ parallel = TRUE
    /\ config \in [testing_enabled : {TRUE},
                   require_virtualenv : {TRUE},
                   version_policy : RunPolicies,
                   max_parallel : 1..MaxParallel]
    /\ context = [in_virtualenv |-> TRUE, elevated |-> FALSE]
    /\ filters = OpenFilters
    /\ outcomes \in [Names -> Courses]
    /\ spc = "update"
    /\ raised = "none"
    /\ session = [NewSession(FALSE) EXCEPT !.pre_test_passed = TRUE]
    /\ packages \in {l \in OutdatedLists : Len(l) = NumPkgs}
    /\ workers = [n \in Names |-> [pc |-> "queued", result |-> NoResult]]
    /\ results = <<>>
    /\ installed = [n \in Names |-> InstalledAt(packages[n].version)]
    /\ calls = [n \in Names |-> <<>>]
    /\ sessionCalls = <<"run_tests", "get_outdated_packages">>

PoolNext ==
    \/ \E n \in Names : ParStart(n)
    \/ \E n \in Names : InstallReturns(n)
    \/ \E n \in Names : TestsReturn(n)
    \/ \E n \in Names : UninstallReturns(n)
    \/ \E n \in Names : ReinstallReturns(n)
    \/ \E n \in Names : ParCollect(n)
    \/ ReturnSession

PoolSpec == PoolInit /\ [][PoolNext]_vars

(***************************************************************************)
(* The configured strategy.  validate_config accepts the values            *)
(* "sequential" and "parallel" of updates.strategy; run_update_session     *)
(* takes its mode from its `parallel` argument, which the command line     *)
(* fills from the --parallel flag.  StrategySpec is step 6 of a run that   *)
(* is not a dry-run, under the policy safe with verification enabled, for  *)
(* every combination of the flag, the strategy and the pool size.          *)
(***************************************************************************)
Strategies == {"sequential", "parallel"}

StrategyInit ==
    /\ dry_run = FALSE
    /\ no_backup = TRUE
    /\ no_tests = FALSE
    /\ parallel \in BOOLEAN
    /\ config \in [testing_enabled : {TRUE},
                   require_virtualenv : {TRUE},
                   version_policy : {"safe"},
                   max_parallel : 1..MaxParallel,
                   strategy : Strategies]
    /\ context = [in_virtualenv |-> TRUE, elevated |-> FALSE]
    /\ filters = OpenFilters
    /\ outcomes = [n \in Names |-> "any"]
    /\ spc = "update"
    /\ raised = "none"
    /\ session = [NewSession(FALSE) EXCEPT !.pre_test_passed = TRUE]
    /\ packages = [i \in 1..NumPkgs |-> PackageData(i, <<Ver(<<1, 0, 0>>), Ver(<<1, 1, 0>>)>>)]
    /\ workers = [n \in Names |-> [pc |-> "queued", result |-> NoResult]]
    /\ results = <<>>
    /\ installed = [n \in Names |-> InstalledAt(packages[n].version)]
    /\ calls = [n \in Names |-> <<>>]
    /\ sessionCalls = <<"run_tests", "get_outdated_packages">>

StrategyNext ==
    \/ \E n \in Names : SeqStart(n)
    \/ \E n \in Names : SeqCollect(n)
    \/ \E n \in Names : ParStart(n)
    \/ \E n \in Names : ParCollect(n)
    \/ \E n \in Names : InstallReturns(n)
    \/ \E n \in Names : TestsReturn(n)
    \/ \E n \in Names : UninstallReturns(n)
    \/ \E n \in Names : ReinstallReturns(n)
    \/ ReturnSession

StrategySpec == StrategyInit /\ [][StrategyNext]_vars

(***************************************************************************)
(* Unexpected exceptions.  The statements a task runs before the `try` of  *)
(* _update_package (building the PackageInfo and the pending UpdateResult) *)
(* are covered by no handler of the worker: an exception raised there      *)
(* leaves the task.  FaultSpec is Spec with such exceptions added, for the  *)
(* runs that require a virtual environment and make no backup.             *)
(***************************************************************************)
FaultInit ==
    /\ Init
    /\ config.require_virtualenv
    /\ no_backup

Escaped == [pc |-> "raised", result |-> NoResult]

\* the task of package n raised: a worker whose _update_package call produced no result
TaskRaised(n) == workers[n].pc \in {"raised", "collected"} /\ workers[n].result = NoResult

\* the result as_completed's `except Exception` builds for a task that raised
SynthesizedResult(package, e) == UpdateResult(package, "failed_install", e, None, FALSE)

\* in the pool: the exception is stored in the task's future
ParTaskRaises(n) ==
    /\ spc = "update"
    /\ parallel
    /\ IsNextQueued(n)
    /\ Cardinality({m \in Names : Active(m)}) < config.max_parallel
    /\ workers' = [workers EXCEPT ![n] = Escaped]
    /\ UNCHANGED <<sessionVars, results, installed, calls>>

\* in the sequential loop: the exception leaves run_update_session
SeqTaskRaises(n) ==
    /\ spc = "update"
    /\ ~parallel
    /\ IsNextQueued(n)
    /\ \A m \in Names : workers[m].pc \in {"none", "queued", "collected"}
    /\ Propagate("RuntimeError")
    /\ UNCHANGED <<inputs, packages, sessionCalls, workerVars>>

\* ParCollectRaised that logs the exception and builds no result
ParCollectRaised_NoResult(n) ==
    /\ spc = "update"
    /\ parallel
    /\ workers[n].pc = "raised"
    /\ workers' = [workers EXCEPT ![n].pc = "collected"]
    /\ UNCHANGED <<sessionVars, results, installed, calls>>

\* as_completed yields a future whose result() raises: a failed_install result is built
ParCollectRaised(n) ==
    /\ spc = "update"
    /\ parallel
    /\ workers[n].pc = "raised"
    /\ results' = Append(results, SynthesizedResult(PackageOf(n), "RuntimeError"))
    /\ workers' = [workers EXCEPT ![n].pc = "collected"]
    /\ UNCHANGED <<sessionVars, installed, calls>>

FaultNext ==
    \/ Next
    \/ \E n \in Names : ParTaskRaises(n)
    \/ \E n \in Names : SeqTaskRaises(n)
    \/ \E n \in Names : ParCollectRaised(n)

FaultSpec == FaultInit /\ [][FaultNext]_vars

(***************************************************************************)
(* Termination.  run_tests runs the test command with                      *)
(* timeout=config.timeout_seconds: a test process that does not end makes  *)
(* run_tests raise TestError, which is the outcome "raise" of TestsReturn. *)
(* _update_package calls install_package and uninstall_package without a   *)
(* timeout argument, so run_secure_command calls subprocess.run with       *)
(* timeout=None: a pip process that does not end is waited for without     *)
(* limit.  LiveSpec is Spec for the runs that require a virtual            *)
(* environment and make no backup, with such pip processes added, and with *)
(* the run going on as long as a step of it can be taken.                  *)
(***************************************************************************)
PipCalls == {"installing", "uninstalling", "reinstalling"}

\* the pip process of the call the worker of n is blocked in never ends
PipHangs(n) ==
    /\ spc = "update"
    /\ workers[n].pc \in PipCalls
    /\ workers' = [workers EXCEPT ![n].pc = "hung"]
    /\ UNCHANGED <<sessionVars, results, installed, calls>>

LiveNext ==
    \/ Next
    \/ \E n \in Names : PipHangs(n)

LiveSpec == FaultInit /\ [][LiveNext]_vars /\ WF_vars(LiveNext)

(***************************************************************************)
(* UpdateSession on its own: results of any status are appended to a       *)
(* session, as `session.results.append(result)` does.                      *)
(***************************************************************************)
SessionInit ==
    /\ dry_run = FALSE
    /\ no_backup = FALSE
    /\ no_tests = FALSE
    /\ parallel = FALSE
    /\ config = [testing_enabled |-> TRUE, require_virtualenv |-> TRUE,
                 version_policy |-> "safe", max_parallel |-> 1]
    /\ context = [in_virtualenv |-> TRUE, elevated |-> FALSE]
    /\ filters = OpenFilters
    /\ outcomes = [n \in Names |-> "any"]
    /\ spc = "update"
    /\ raised = "none"
    /\ session = NewSession(FALSE)
    /\ packages = <<>>
    /\ workers = [n \in Names |-> Idle]
    /\ results = <<>>
    /\ installed = [n \in Names |-> Untracked]
    /\ calls = [n \in Names |-> <<>>]
    /\ sessionCalls = <<>>

AppendResult ==
    /\ Len(session.results) < MaxResults
    /\ \E status \in UpdateStatus :
          session' = [session EXCEPT !.results =
                         Append(@, UpdateResult(NoPackage, status, None, None, FALSE))]
    /\ UNCHANGED <<inputs, spc, raised, packages, sessionCalls, workerVars>>

SessionSpec == SessionInit /\ [][AppendResult]_vars

(***************************************************************************)
(* Vocabulary of the properties.                                           *)
(***************************************************************************)
Started(n) == workers[n].pc \notin {"none", "queued"}

Done(n) == workers[n].pc \in {"finished", "collected"}

StatusOf(n) == workers[n].result.status

ErrorOf(n) == workers[n].result.error_message

\* run_tests returned a TestResult with success=False to the worker of n
TestsFailed(n) ==
    workers[n].result.test_output # None /\ ~workers[n].result.test_passed

InstallTarget(n) == Call("install", PackageOf(n).latest_version)

InstallOriginal(n) == Call("install", PackageOf(n).version)

RunTests == Call("run_tests", NoVersion)

Uninstall == Call("uninstall", NoVersion)

AtOriginal(n) == installed[n] = InstalledAt(PackageOf(n).version)

AtTarget(n) == installed[n] = InstalledAt(PackageOf(n).latest_version)

GateOf(package) ==
    is_breaking_change(package.version, package.latest_version, config.version_policy)

RECURSIVE CountOp(_, _)
CountOp(cs, op) ==
    IF cs = <<>> THEN 0
    ELSE (IF Head(cs) = op THEN 1 ELSE 0) + CountOp(Tail(cs), op)

\* every UpdateResult that exists: those of the workers, of the pool's list, of the session
AllResults ==
    {workers[n].result : n \in {m \in Names : Done(m)}}
        \cup {results[i] : i \in 1..Len(results)}
        \cup {session.results[i] : i \in 1..Len(session.results)}

(***************************************************************************)
(* Properties of the per-package worker.                                   *)
(***************************************************************************)

\* C1 (as stated): once install of the target succeeded and run_tests returned
\* success=False, the worker that has returned has called uninstall and then
\* install of the original version, each exactly once.
C1_AsStated ==
    \A n \in Names :
        Done(n) /\ TestsFailed(n) =>
            calls[n] = <<InstallTarget(n), RunTests, Uninstall, InstallOriginal(n)>>

\* C1 (amended): once install of the target succeeded and run_tests returned
\* success=False, the worker calls uninstall exactly once and, if that
\* uninstall succeeds, install of the original version exactly once after it;
\* install of the original version is never called after a failed uninstall;
\* the result is rolled_back exactly when both calls succeeded.
C1_Rollback ==
    \A n \in Names :
        TestsFailed(n) =>
            /\ workers[n].pc \in {"uninstalling", "reinstalling", "finished", "collected"}
            /\ Len(calls[n]) >= 3
            /\ SubSeq(calls[n], 1, 3) = <<InstallTarget(n), RunTests, Uninstall>>
            /\ workers[n].pc = "uninstalling" => Len(calls[n]) = 3
            /\ workers[n].pc = "reinstalling" =>
                  calls[n] = <<InstallTarget(n), RunTests, Uninstall, InstallOriginal(n)>>
            /\ Done(n) =>
                  /\ AtTarget(n) => Len(calls[n]) = 3
                  /\ ~AtTarget(n) =>
                        calls[n] = <<InstallTarget(n), RunTests, Uninstall, InstallOriginal(n)>>
                  /\ (StatusOf(n) = "rolled_back") <=> AtOriginal(n)

\* C1 witness: a worker has rolled its package back
C1_Witness ==
    \E n \in Names :
        /\ Done(n) /\ TestsFailed(n)
        /\ StatusOf(n) = "rolled_back"
        /\ AtOriginal(n)
        /\ Len(calls[n]) = 4

\* C2: after a successful install and a failed test run, a recovery that fails
\* at the uninstall or at the reinstall of the original version ends the worker
\* in critical_failure with the error of the failed call in error_message, and
\* the worker that has returned has made no call after the failed one.
C2_RecoveryFailure ==
    \A n \in Names :
        Done(n) /\ TestsFailed(n) /\ ~AtOriginal(n) =>
            /\ StatusOf(n) = "critical_failure"
            /\ \/ /\ AtTarget(n)
                  /\ ErrorOf(n) = "Failed to uninstall package"
                  /\ calls[n] = <<InstallTarget(n), RunTests, Uninstall>>
               \/ /\ installed[n] = Absent
                  /\ ErrorOf(n) = "Failed to install package"
                  /\ calls[n] = <<InstallTarget(n), RunTests, Uninstall, InstallOriginal(n)>>

\* C2 witness: the uninstall succeeded and the reinstall of the original failed
C2_Witness ==
    \E n \in Names :
        /\ Done(n) /\ TestsFailed(n)
        /\ installed[n] = Absent
        /\ StatusOf(n) = "critical_failure"

(***************************************************************************)
(* Dry-run.                                                                *)
(***************************************************************************)

\* C3 (as stated): in a dry-run no install, uninstall or test-run call occurs
\* at any point of the run.
C3_AsStated ==
    dry_run =>
        /\ \A n \in Names : calls[n] = <<>>
        /\ CountOp(sessionCalls, "run_tests") = 0

\* C3 (amended): in a dry-run no worker makes any collaborator call (no install,
\* no uninstall, no per-package test run) and no backup is created; the only
\* test run of the whole run is the single pre-flight run, which is made
\* exactly when verification is enabled and not suppressed.
C3_DryRunNoCalls ==
    dry_run =>
        /\ \A n \in Names : calls[n] = <<>>
        /\ CountOp(sessionCalls, "create_backup") = 0
        /\ CountOp(sessionCalls, "run_tests") <= 1
        /\ CountOp(sessionCalls, "run_tests") = 1 => TestsEnabled
        /\ spc \in {"backup", "fetch", "update", "returned"} /\ TestsEnabled =>
              CountOp(sessionCalls, "run_tests") = 1

\* C3 witness: a dry-run with verification enabled has returned a session with a result
C3_Witness ==
    /\ dry_run /\ TestsEnabled
    /\ spc = "returned"
    /\ \E i \in 1..Len(session.results) : session.results[i].status = "updated"

\* C4 (as stated): in a dry-run every UpdateResult has status skipped or updated.
C4_AsStated ==
    dry_run => \A r \in AllResults : r.status \in {"skipped", "updated"}

\* C4 (amended): in a dry-run every UpdateResult has status skipped, updated or
\* failed_install: skipped when the policy gate reports the jump as breaking,
\* updated when it reports it as not breaking, and failed_install (with the
\* error recorded) when the gate itself raises because a version of the
\* package does not validate.
C4_DryRunStatuses ==
    dry_run =>
        \A r \in AllResults :
            LET gate == GateOf(r.package)
            IN  /\ gate.raised # "none" =>
                      r.status = "failed_install" /\ r.error_message = gate.raised
                /\ gate.raised = "none" /\ gate.value =>
                      r.status = "skipped" /\ r.error_message = None
                /\ gate.raised = "none" /\ ~gate.value =>
                      r.status = "updated" /\ r.error_message = None

\* C4 witness: a returned dry-run session holds an updated and a failed_install result
C4_Witness ==
    /\ dry_run
    /\ spc = "returned"
    /\ \E i, j \in 1..Len(session.results) :
          /\ session.results[i].status = "updated"
          /\ session.results[j].status = "failed_install"

(***************************************************************************)
(* Failures of the test run and of the install.                            *)
(***************************************************************************)

\* C5: when install of the target succeeded and the test run did not pass
\* (run_tests returned success=False or raised), the worker attempts the
\* recovery (uninstall first) and ends in rolled_back or critical_failure.
C5_TestErrorRecovers ==
    \A n \in Names :
        /\ Done(n)
        /\ Len(calls[n]) >= 2
        /\ calls[n][2] = RunTests
        /\ ~workers[n].result.test_passed
        => /\ Len(calls[n]) >= 3
           /\ calls[n][3] = Uninstall
           /\ StatusOf(n) \in {"rolled_back", "critical_failure"}

\* C6: a worker whose result is failed_install leaves its package installed
\* at the original version: no install of the target version succeeded.
C6_FailedInstallUnchanged ==
    \A n \in Names :
        Done(n) /\ StatusOf(n) = "failed_install" => AtOriginal(n)

\* C7: when install of the target version fails, the worker returns
\* failed_install with the failure's message in error_message in that very
\* step, making no further call; a worker that has returned with that message
\* has made the install call and no other.
C7_InstallFailure ==
    /\ [][\A n \in Names :
            workers[n].pc = "installing" /\ workers'[n] # workers[n]
                /\ installed'[n] = installed[n]
            => /\ workers'[n].pc = "finished"
               /\ workers'[n].result.status = "failed_install"
               /\ workers'[n].result.error_message = "Failed to install package"
               /\ calls'[n] = calls[n]]_vars
    /\ [](\A n \in Names :
            Done(n) /\ StatusOf(n) = "failed_install"
                /\ ErrorOf(n) = "Failed to install package"
            => /\ calls[n] = <<InstallTarget(n)>>
               /\ AtOriginal(n))

\* C7 witness: a worker returned failed_install after its install call failed
C7_Witness ==
    \E n \in Names :
        /\ Done(n)
        /\ StatusOf(n) = "failed_install"
        /\ ErrorOf(n) = "Failed to install package"
        /\ calls[n] = <<InstallTarget(n)>>

\* C8: a package whose jump the version-policy gate reports as breaking gets
\* the result skipped with no error message as soon as its worker starts, and
\* no install, uninstall or test-run call is ever made for it, in a dry-run or not.
C8_BreakingSkipped ==
    \A n \in Names :
        Started(n) /\ GateOf(PackageOf(n)) = Returns(TRUE) =>
            /\ Done(n)
            /\ StatusOf(n) = "skipped"
            /\ ErrorOf(n) = None
            /\ calls[n] = <<>>
            /\ AtOriginal(n)

\* C8 witness: a breaking jump was skipped in a run that is not a dry-run
C8_Witness ==
    \E n \in Names :
        /\ ~dry_run
        /\ Done(n)
        /\ GateOf(PackageOf(n)) = Returns(TRUE)
        /\ StatusOf(n) = "skipped"

(***************************************************************************)
(* Derived views of UpdateSession.                                         *)
(***************************************************************************)

\* C9: session.success is true exactly when no result of the session has
\* status critical_failure, whatever the other results are.
C9_SuccessIffNoCritical ==
    success(session) <=>
        \A i \in 1..Len(session.results) : session.results[i].status # "critical_failure"

\* C9 witness: a session holding failed_install, rolled_back and skipped results is successful
C9_Witness ==
    /\ success(session)
    /\ \E i, j, k \in 1..Len(session.results) :
          /\ session.results[i].status = "failed_install"
          /\ session.results[j].status = "rolled_back"
          /\ session.results[k].status = "skipped"

\* C10: session.summary has exactly the six status keys, each mapped to the
\* number of results with that status, and the six values sum to the number
\* of results.
C10_SummaryCounts ==
    /\ DOMAIN summary(session) =
          {"updated", "rolled_back", "failed_install", "critical_failure", "skipped", "pending"}
    /\ \A s \in DOMAIN summary(session) :
          summary(session)[s] =
              Cardinality({i \in 1..Len(session.results) : session.results[i].status = s})
    /\ summary(session)["updated"] + summary(session)["rolled_back"]
          + summary(session)["failed_install"] + summary(session)["critical_failure"]
          + summary(session)["skipped"] + summary(session)["pending"]
          = Len(session.results)

\* C10 witness: a session with two results of one status and one of another
C10_Witness ==
    /\ Len(session.results) = 3
    /\ summary(session)["rolled_back"] = 2
    /\ summary(session)["pending"] = 1

(***************************************************************************)
(* Session-level aborts.                                                   *)
(***************************************************************************)

\* C11: when verification is enabled and not suppressed and the pre-flight
\* run returns success=False, run_update_session raises UpdateError having
\* made the pre-flight call and no other: no backup is created, the outdated
\* list is not fetched, no worker is started and no install or uninstall call
\* is made; a run with verification enabled gets past step 3 only with
\* pre_test_passed set.
C11_PreflightAbort ==
    /\ raised = "UpdateError" =>
          /\ spc = "raised"
          /\ TestsEnabled
          /\ ~session.pre_test_passed
          /\ sessionCalls = <<"run_tests">>
          /\ session.backup_file = None
          /\ session.results = <<>>
          /\ packages = <<>>
          /\ \A n \in Names : workers[n] = Idle /\ calls[n] = <<>> /\ installed[n] = Untracked
    /\ TestsEnabled /\ spc \in {"backup", "fetch", "update", "returned"} =>
          session.pre_test_passed

\* C11 witness: a run that would have made a backup was aborted by the pre-flight run
C11_Witness ==
    /\ raised = "UpdateError"
    /\ ~dry_run /\ ~no_backup
    /\ sessionCalls = <<"run_tests">>

\* C12: when the run is outside a virtual environment while the configuration
\* requires one, or the privileges are elevated, the run never gets past the
\* security checks: it raises SecurityError with no test-runner, backup or
\* package-manager call made, no worker started and no UpdateResult anywhere;
\* and SecurityError is raised for no other reason.
C12_SecurityAbort ==
    /\ (config.require_virtualenv /\ ~context.in_virtualenv) \/ context.elevated =>
          /\ spc \in {"security", "raised"}
          /\ spc = "raised" => raised = "SecurityError"
          /\ sessionCalls = <<>>
          /\ session.results = <<>>
          /\ results = <<>>
          /\ AllResults = {}
          /\ packages = <<>>
          /\ \A n \in Names : workers[n] = Idle /\ calls[n] = <<>>
    /\ raised = "SecurityError" =>
          (config.require_virtualenv /\ ~context.in_virtualenv) \/ context.elevated

\* C12 witness: a run inside a virtual environment was refused for its elevated privileges
C12_Witness ==
    /\ raised = "SecurityError"
    /\ spc = "raised"
    /\ context.in_virtualenv /\ context.elevated

(***************************************************************************)
(* The scheduler.                                                          *)
(***************************************************************************)
\* the positions in the sequence rs of the results of package n
ResultsOf(rs, n) == {i \in 1..Len(rs) : rs[i].package.name = n}

\* C13: in parallel mode, under every interleaving and with tasks that may
\* raise, the pool's list holds exactly one UpdateResult per collected package
\* and none for any other; the result of a task that raised is failed_install
\* with the exception's message, the result of any other task is the one its
\* worker returned; no exception leaves the run once packages are scheduled,
\* and the returned session holds exactly one result per submitted package.
C13_OneResultPerPackage ==
    parallel =>
        /\ \A n \in Names :
              /\ Cardinality(ResultsOf(results, n)) =
                    (IF workers[n].pc = "collected" THEN 1 ELSE 0)
              /\ \A i \in ResultsOf(results, n) :
                    results[i] = IF TaskRaised(n)
                                 THEN SynthesizedResult(PackageOf(n), "RuntimeError")
                                 ELSE workers[n].result
        /\ spc = "update" => session.results = <<>>
        /\ packages # <<>> => raised = "none" /\ spc \in {"update", "returned"}
        /\ spc = "returned" =>
              /\ session.results = results
              /\ Len(session.results) = Len(packages)
              /\ \A i \in 1..Len(packages) :
                    Cardinality(ResultsOf(session.results, packages[i].name)) = 1

\* C13 witness: a parallel run returned the synthesized result of a task that
\* raised next to the result of a task that updated its package
C13_Witness ==
    /\ parallel
    /\ spc = "returned"
    /\ \E n, m \in Names :
          /\ TaskRaised(n)
          /\ \E i \in ResultsOf(session.results, n) :
                session.results[i].status = "failed_install"
                    /\ session.results[i].error_message = "RuntimeError"
          /\ ~TaskRaised(m)
          /\ \E j \in ResultsOf(session.results, m) :
                session.results[j].status = "updated"

\* C14: in sequential mode session.results holds, at every moment, the results
\* of the packages handled so far, one each, in the order of the filtered
\* list, each being the result its worker returned; the session is returned
\* only with one result for every package of the filtered list, whatever the
\* status of the earlier ones.
C14_SequentialOrder ==
    ~parallel =>
        /\ results = <<>>
        /\ Len(session.results) <= Len(packages)
        /\ \A i \in 1..Len(packages) :
              IF i <= Len(session.results)
              THEN /\ workers[packages[i].name].pc = "collected"
                   /\ session.results[i] = workers[packages[i].name].result
                   /\ session.results[i].package = packages[i]
                   /\ session.results[i].status # "pending"
              ELSE workers[packages[i].name].pc # "collected"
        /\ spc = "returned" => Len(session.results) = Len(packages)

\* C14 witness: a sequential run returned an updated package after one that
\* ended in critical_failure
C14_Witness ==
    /\ ~parallel
    /\ spc = "returned"
    /\ Len(session.results) = 2
    /\ session.results[1].status = "critical_failure"
    /\ session.results[2].status = "updated"

\* what run_tests does in a course
TestOutcomeOf(course) ==
    CASE course = "tests_pass" -> "pass"
      [] course = "tests_raise" -> "raise"
      [] OTHER -> "fail"

\* the worker of a package run on its own, from entry to return, in a given course
RunAlone(package, course) ==
    LET w0 == StartUpdate(package)
        w1 == AfterInstall(w0, course # "install_fails")
        w2 == AfterTests(w1, TestOutcomeOf(course))
        w3 == AfterUninstall(w2, course # "uninstall_fails")
        w4 == AfterReinstall(w3, course # "reinstall_fails")
    IN  IF w0.pc = "finished" THEN w0
        ELSE IF w1.pc = "finished" THEN w1
        ELSE IF w2.pc = "finished" THEN w2
        ELSE IF w3.pc = "finished" THEN w3
        ELSE w4

\* C15: in parallel mode, with the course of each package's collaborator
\* calls fixed, the summary of the returned session is the same under every
\* interleaving and completion order: each status is counted once for every
\* package whose worker, run on its own in that course, ends with it; so is
\* updated_count.
C15_SummaryIndependent ==
    parallel /\ spc = "returned" =>
        /\ \A s \in UpdateStatus :
              summary(session)[s] =
                  Cardinality({i \in 1..Len(packages) :
                      RunAlone(packages[i], outcomes[packages[i].name]).result.status = s})
        /\ updated_count(session) =
              Cardinality({i \in 1..Len(packages) :
                  RunAlone(packages[i], outcomes[packages[i].name]).result.status = "updated"})

\* C15 witness: both packages were updated and the one submitted last was collected first
C15_Witness ==
    /\ parallel
    /\ spc = "returned"
    /\ Len(session.results) = 2
    /\ updated_count(session) = 2
    /\ session.results[1].package = packages[2]
    /\ session.results[2].package = packages[1]

(***************************************************************************)
(* The package selector.                                                   *)
(***************************************************************************)
\* the names get_outdated_packages reported
Outdated == {n \in Names : installed[n] # Untracked}

\* the name is in a list that was given
Listed(n, l) == l.given /\ n \in l.names

\* a list that is present and not empty
PresentNonEmpty(l) == l.given /\ l.names # {}

\* in neither ignore-list, and in every allow-list that is present and not empty
Eligible(n) ==
    /\ ~Listed(n, filters.config_ignore)
    /\ ~Listed(n, filters.cli_ignore)
    /\ PresentNonEmpty(filters.config_allow) => Listed(n, filters.config_allow)
    /\ PresentNonEmpty(filters.cli_allow) => Listed(n, filters.cli_allow)

\* C16: once step 5 has run, packages_to_update holds exactly the outdated
\* packages that are in neither ignore-list and in every allow-list that is
\* present and not empty, each once and in the order of the outdated list; and
\* a package named in either ignore-list never gets a worker, a collaborator
\* call or an UpdateResult.
C16_Filter ==
    /\ spc \in {"update", "returned"} =>
          /\ {packages[i].name : i \in 1..Len(packages)} = {n \in Outdated : Eligible(n)}
          /\ \A i, j \in 1..Len(packages) : i < j => packages[i].name < packages[j].name
          /\ \A i \in 1..Len(packages) :
                workers[packages[i].name].pc = "queued" =>
                    installed[packages[i].name] = InstalledAt(packages[i].version)
    /\ \A n \in Names :
          Listed(n, filters.config_ignore) \/ Listed(n, filters.cli_ignore) =>
              /\ workers[n] = Idle
              /\ calls[n] = <<>>
              /\ ResultsOf(session.results, n) = {}

\* C16 witness: of two outdated packages, one named in the invocation's
\* ignore-list and both named in the configuration's allow-list, the run
\* installed and reported the other one only
C16_Witness ==
    /\ spc = "returned"
    /\ Outdated = {1, 2}
    /\ filters.config_ignore = NameList({})
    /\ filters.cli_ignore = NameList({1})
    /\ filters.config_allow = NameList({1, 2})
    /\ filters.cli_allow = NameList({})
    /\ Len(session.results) = 1
    /\ session.results[1].package.name = 2
    /\ calls[2] # <<>>
    /\ calls[1] = <<>>

(***************************************************************************)
(* Per-package failures.                                                   *)
(***************************************************************************)

\* C17: once packages are scheduled, in either mode, no exception leaves
\* run_update_session on account of a package: the run stays in step 6 or
\* returns, with a result for every package.  Each failure is found in the
\* result of its package: a version that does not validate gives
\* failed_install with the validation error and no collaborator call at all;
\* a failed install gives failed_install with its message; a test run that
\* raises gives failed_install with its message; a failed recovery gives
\* critical_failure with its message; and a result carries an error message
\* exactly when its status is failed_install or critical_failure.
C17_FailuresCaptured ==
    /\ packages # <<>> =>
          /\ raised = "none"
          /\ spc \in {"update", "returned"}
          /\ spc = "returned" =>
                /\ Len(session.results) = Len(packages)
                /\ \A i \in 1..Len(packages) :
                      Cardinality(ResultsOf(session.results, packages[i].name)) = 1
    /\ \A n \in Names :
          Done(n) =>
              /\ StatusOf(n) # "pending"
              /\ StatusOf(n) \in {"failed_install", "critical_failure"} <=> ErrorOf(n) # None
              /\ GateOf(PackageOf(n)).raised # "none" =>
                    /\ StatusOf(n) = "failed_install"
                    /\ ErrorOf(n) = "ValidationError"
                    /\ calls[n] = <<>>
              /\ calls[n] = <<InstallTarget(n)>> /\ ~AtTarget(n) =>
                    StatusOf(n) = "failed_install" /\ ErrorOf(n) = "Failed to install package"
              /\ calls[n] = <<InstallTarget(n), RunTests>> /\ ~workers[n].result.test_passed =>
                    StatusOf(n) = "failed_install" /\ ErrorOf(n) = "Tests timed out"
              /\ TestsFailed(n) /\ ~AtOriginal(n) =>
                    /\ StatusOf(n) = "critical_failure"
                    /\ ErrorOf(n) \in {"Failed to uninstall package", "Failed to install package"}

\* C17 witness: a run returned normally with the result of a package whose
\* version does not validate and the result of one whose test run raised
C17_Witness ==
    /\ spc = "returned"
    /\ raised = "none"
    /\ \E n, m \in Names :
          /\ Done(n) /\ Done(m)
          /\ GateOf(PackageOf(n)).raised = "ValidationError"
          /\ StatusOf(n) = "failed_install"
          /\ calls[n] = <<>>
          /\ ErrorOf(m) = "Tests timed out"
          /\ ResultsOf(session.results, n) # {}
          /\ ResultsOf(session.results, m) # {}

(***************************************************************************)
(* The backup.                                                             *)
(***************************************************************************)
\* some worker has called the package manager or the test runner
AnyWorkerCall == \E n \in Names : calls[n] # <<>>

\* C18: create_backup is called at most once, and only in a run that is
\* neither a dry-run nor backup-suppressed, after the pre-flight gate (run
\* when verification is enabled) has passed and before the outdated list is
\* fetched.  In a dry-run or backup-suppressed run the session records no
\* backup.  In any other run, whenever a worker has made a call, create_backup
\* has returned and its reference (the path, or the empty reference of a
\* disabled backup configuration) is recorded in session.backup_file.  When
\* create_backup raises, the run ends with no worker started and no install
\* or uninstall call made.
C18_BackupFirst ==
    /\ CountOp(sessionCalls, "create_backup") <= 1
    /\ CountOp(sessionCalls, "create_backup") = 1 =>
          /\ ~dry_run /\ ~no_backup
          /\ IF TestsEnabled
             THEN session.pre_test_passed
                    /\ SubSeq(sessionCalls, 1, 2) = <<"run_tests", "create_backup">>
             ELSE sessionCalls[1] = "create_backup"
    /\ dry_run \/ no_backup => session.backup_file = None
    /\ ~dry_run /\ ~no_backup /\ (AnyWorkerCall \/ spc \in {"fetch", "update", "returned"}) =>
          /\ CountOp(sessionCalls, "create_backup") = 1
          /\ session.backup_file \in {"path", ""}
          /\ raised \in {"none", "PipError"}
    /\ raised = "BackupError" =>
          /\ spc = "raised"
          /\ session.backup_file = None
          /\ CountOp(sessionCalls, "get_outdated_packages") = 0
          /\ ~AnyWorkerCall
          /\ \A n \in Names : workers[n] = Idle /\ installed[n] = Untracked

\* C18 witness: with verification enabled, a package was installed and
\* uninstalled after the backup was written and recorded
C18_Witness ==
    /\ ~dry_run /\ ~no_backup /\ TestsEnabled
    /\ session.backup_file = "path"
    /\ \E n \in Names : Len(calls[n]) >= 3 /\ calls[n][3] = Uninstall

(***************************************************************************)
(* The version-policy gate.                                                *)
(***************************************************************************)
\* the package the gate is applied to, and what is_breaking_change does with it
Gated == packages[1]

Verdict == GateOf(Gated)

BothValid == validate_version(Gated.version) /\ validate_version(Gated.latest_version)

\* target <= current
NotForward == VersionLE(Gated.latest_version, Gated.version)

\* C19: for two versions that validate, is_breaking_change returns false
\* whenever target <= current, under every policy name (an unrecognized one
\* included), and returns false for every forward jump under the policy
\* latest; it returns true only for a forward jump under a policy other than
\* latest.  The worker skips the package exactly when it returns true.
C19_OnlyForwardBreaks ==
    BothValid =>
        /\ NotForward => Verdict = Returns(FALSE)
        /\ config.version_policy = "latest" => Verdict = Returns(FALSE)
        /\ Verdict = Returns(TRUE) => ~NotForward /\ config.version_policy # "latest"
        /\ Done(1) => (StatusOf(1) = "skipped" <=> Verdict = Returns(TRUE))
        /\ Done(1) /\ (NotForward \/ config.version_policy = "latest") =>
              StatusOf(1) = "updated"

\* C19 witness: under a policy name that is not recognized, a jump back over
\* a major version was not reported as breaking
C19_Witness ==
    /\ config.version_policy = "strict"
    /\ BothValid
    /\ Gated.version.release[1] = 1
    /\ Gated.latest_version.release[1] = 0
    /\ Done(1)
    /\ StatusOf(1) = "updated"

\* the first two components of a release, a missing one counting as zero
MajorMinor(v) ==
    <<IF Len(v.release) >= 1 THEN v.release[1] ELSE 0,
      IF Len(v.release) >= 2 THEN v.release[2] ELSE 0>>

\* C20: under the policy patch, for two versions that validate with
\* target > current, whatever the lengths of their releases and their
\* qualifiers, is_breaking_change returns a boolean, which is true exactly
\* when the (major, minor) pairs of the two releases differ; the worker that
\* applied it skipped the package in that case and went on otherwise.
C20_PatchPolicy ==
    Done(1) /\ config.version_policy = "patch" /\ BothValid /\ ~NotForward =>
        /\ Verdict = Returns(MajorMinor(Gated.version) # MajorMinor(Gated.latest_version))
        /\ StatusOf(1) = IF MajorMinor(Gated.version) # MajorMinor(Gated.latest_version)
                         THEN "skipped" ELSE "updated"

\* the first components of the two releases differ
MajorDiffers == Gated.version.release[1] # Gated.latest_version.release[1]

\* C21: for two versions that validate, is_breaking_change gives the same
\* result under safe and under minor; for a forward jump that result is true
\* exactly when the first components of the two releases differ, whatever the
\* other components and the qualifiers; the worker running under either policy
\* skips the package in exactly that case.
C21_SafeIsMinor ==
    BothValid =>
        /\ is_breaking_change(Gated.version, Gated.latest_version, "safe")
              = is_breaking_change(Gated.version, Gated.latest_version, "minor")
        /\ ~NotForward =>
              is_breaking_change(Gated.version, Gated.latest_version, "safe")
                  = Returns(MajorDiffers)
        /\ Done(1) /\ config.version_policy \in {"safe", "minor"} =>
              StatusOf(1) = IF ~NotForward /\ MajorDiffers THEN "skipped" ELSE "updated"

\* C21 witness: under safe, a forward jump of the minor component between
\* versions with qualifiers went through
C21_Witness ==
    /\ config.version_policy = "safe"
    /\ BothValid /\ ~NotForward
    /\ ~MajorDiffers
    /\ MajorMinor(Gated.version) # MajorMinor(Gated.latest_version)
    /\ Gated.version.suffix # "" /\ Gated.latest_version.suffix # ""
    /\ Done(1)
    /\ StatusOf(1) = "updated"

(***************************************************************************)
(* Termination.                                                            *)
(***************************************************************************)

\* C22: in either mode every run ends: every worker that was started reaches
\* a terminal status, and the run returns a session with end_time set or
\* raises; no worker stays blocked in a collaborator call for ever.
C22_RunEnds ==
    /\ \A n \in Names : Started(n) ~> Done(n)
    /\ <>(spc = "raised" \/ (spc = "returned" /\ session.end_time = "set"))

(***************************************************************************)
(* Scheduling of the workers.                                              *)
(***************************************************************************)
ActiveWorkers == {n \in Names : Active(n)}

\* C23: in parallel mode at most config.max_parallel workers are between
\* their start and their terminal status at any time, and a queued package
\* is started only when fewer than config.max_parallel workers are active,
\* that is, when a thread of the pool has returned from its worker.
C23_PoolBound ==
    /\ [](parallel => Cardinality(ActiveWorkers) <= config.max_parallel)
    /\ [][\A n \in Names :
            parallel /\ Queued(n) /\ ~Queued(n)' =>
                Cardinality(ActiveWorkers) < config.max_parallel]_vars

\* C23 witness: with a pool of one thread, package 2 is being worked on
\* after the worker of package 1 made its calls and returned, before
\* that worker's result has been collected
C23_Witness ==
    /\ parallel
    /\ config.max_parallel = 1
    /\ workers[1].pc = "finished"
    /\ calls[1] # <<>>
    /\ Active(2)

\* the four collaborator calls of a worker, in the order of the code
CallOrder(n) == <<InstallTarget(n), RunTests, Uninstall, InstallOriginal(n)>>

\* C24: in either mode and under any interleaving, the collaborator calls of
\* the worker of a package are a prefix of install(target), test run,
\* uninstall, install(original), each made at most once; the test run is
\* called only with verification enabled and the target installed, the
\* uninstall only after a test run returned failure, install(original) only
\* after the uninstall removed the package; a worker that has returned makes
\* no further call.
C24_CallOrder ==
    /\ [](\A n \in Names :
            calls[n] # <<>> =>
                /\ Len(calls[n]) <= 4
                /\ calls[n] = SubSeq(CallOrder(n), 1, Len(calls[n]))
                /\ workers[n].pc = "installing" => Len(calls[n]) = 1
                /\ workers[n].pc = "testing" =>
                      Len(calls[n]) = 2 /\ TestsEnabled /\ AtTarget(n)
                /\ workers[n].pc = "uninstalling" =>
                      Len(calls[n]) = 3 /\ TestsFailed(n) /\ AtTarget(n)
                /\ workers[n].pc = "reinstalling" =>
                      Len(calls[n]) = 4 /\ TestsFailed(n) /\ installed[n] = Absent)
    /\ [][\A n \in Names :
            /\ Len(calls[n]') \in {Len(calls[n]), Len(calls[n]) + 1}
            /\ Len(calls[n]') = Len(calls[n]) + 1 =>
                  workers[n].pc \notin {"finished", "collected", "raised"}
                      /\ workers[n]'.pc \in Blocking]_vars

\* C24 witness: in parallel mode two workers have each made the four calls,
\* one of them still waiting for install(original) while the other has returned
C24_Witness ==
    /\ parallel
    /\ Len(calls[1]) = 4 /\ Len(calls[2]) = 4
    /\ workers[1].pc = "reinstalling"
    /\ workers[2].pc = "finished"

\* C25: in sequential mode at most one worker is active, and while the
\* worker of a package is in its install, test or rollback step every
\* package before it in the list has a terminal status, with its result
\* appended to the session, and no package after it has been started or has
\* had a collaborator call.
C25_OneAtATime ==
    ~parallel =>
        /\ Cardinality(ActiveWorkers) <= 1
        /\ \A i \in 1..Len(packages) :
              Active(packages[i].name) =>
                  /\ \A j \in 1..(i - 1) :
                        /\ workers[packages[j].name].pc = "collected"
                        /\ StatusOf(packages[j].name) \in UpdateStatus \ {"pending"}
                  /\ \A j \in (i + 1)..Len(packages) :
                        /\ ~Started(packages[j].name)
                        /\ calls[packages[j].name] = <<>>

\* C25 witness: the sequential loop is in the test run of package 2 after
\* package 1 was rolled back and its result appended
C25_Witness ==
    /\ ~parallel
    /\ Len(packages) >= 2
    /\ workers[2].pc = "testing"
    /\ workers[1].pc = "collected"
    /\ StatusOf(1) = "rolled_back"
    /\ Len(calls[1]) = 4

\* C26: in parallel mode the start of a worker waits for a free thread of
\* the pool and for nothing else: with a pool of two threads or more, the
\* next queued package can be started whatever step the workers that are
\* active are in, so that workers overlap on the shared environment.
C26_NoMutualExclusion ==
    \A n \in Names :
        /\ parallel /\ spc = "update"
        /\ config.max_parallel >= 2
        /\ IsNextQueued(n)
        /\ Cardinality(ActiveWorkers) < config.max_parallel
        => ENABLED ParStart(n)

\* C26 witness: the test run of package 1 executes while package 2 is
\* installed at its target, its tests have failed and it is not yet rolled back
C26_Witness ==
    /\ parallel
    /\ config.max_parallel >= 2
    /\ workers[1].pc = "testing" /\ AtTarget(1)
    /\ workers[2].pc = "uninstalling" /\ AtTarget(2)
    /\ Cardinality(ActiveWorkers) >= 2

(***************************************************************************)
(* Statuses and the environment at the end of a run.                       *)
(***************************************************************************)
TerminalStatuses == UpdateStatus \ {"pending"}

\* the UpdateResults that were returned or built: by the workers whose
\* _update_package call returned, in the pool's list, in the session
ReturnedResults ==
    {workers[n].result : n \in {m \in Names : Done(m) /\ ~TaskRaised(m)}}
        \cup {results[i] : i \in 1..Len(results)}
        \cup {session.results[i] : i \in 1..Len(session.results)}

\* C27: every UpdateResult a worker returned, every result the pool
\* collected or built for a task that raised, and every result of the
\* session, has one of the five terminal statuses; pending is in no result
\* of session.results, so the pending count of session.summary is zero.
C27_NoPending ==
    /\ \A r \in ReturnedResults : r.status \in TerminalStatuses
    /\ \A i \in 1..Len(session.results) : session.results[i].status # "pending"
    /\ summary(session)["pending"] = 0

\* C27 witness: a parallel run returned a session with a rolled back
\* package and the result built for a task that raised
C27_Witness ==
    /\ parallel
    /\ spc = "returned"
    /\ Len(session.results) >= 2
    /\ \E i, j \in 1..Len(session.results) :
          /\ session.results[i].status = "rolled_back"
          /\ session.results[j].status = "failed_install"
          /\ session.results[j].error_message = "RuntimeError"
    /\ summary(session)["pending"] = 0

\* C28: with install and uninstall calls that change their own package only
\* and either succeed or leave it as it was, at the end of a run that is not
\* a dry-run, in either mode, every package whose result is updated is
\* installed at its target version, and every package whose result is
\* rolled_back or skipped is installed at its original version.
C28_FinalEnvironment ==
    spc = "returned" /\ ~dry_run =>
        \A i \in 1..Len(session.results) :
            LET r == session.results[i]
            IN  /\ r.status = "updated" =>
                      installed[r.package.name] = InstalledAt(r.package.latest_version)
                /\ r.status \in {"rolled_back", "skipped"} =>
                      installed[r.package.name] = InstalledAt(r.package.version)

\* C28 witness: a parallel run ended with one package updated and the
\* other rolled back
C28_Witness ==
    /\ spc = "returned" /\ ~dry_run /\ parallel
    /\ \E i, j \in 1..Len(session.results) :
          /\ session.results[i].status = "updated"
          /\ AtTarget(session.results[i].package.name)
          /\ session.results[j].status = "rolled_back"
          /\ AtOriginal(session.results[j].package.name)
          /\ Len(calls[session.results[j].package.name]) = 4

\* C29: a package whose latest version is not greater than its installed
\* version is never skipped, under any policy name: for two versions that
\* validate the gate returns false, and in a run that is not a dry-run the
\* worker calls install for the latest version, and after a successful
\* install goes on to the test run, as for any other package; its result is
\* updated only after that test run passed.
C29_BackwardNotSkipped ==
    NotForward =>
        /\ Started(1) => StatusOf(1) # "skipped"
        /\ \A i \in 1..Len(session.results) : session.results[i].status # "skipped"
        /\ BothValid =>
              /\ Verdict = Returns(FALSE)
              /\ Started(1) =>
                    /\ calls[1] # <<>>
                    /\ calls[1][1] = Call("install", Gated.latest_version)
                    /\ workers[1].pc = "installing" \/ Len(calls[1]) >= 2 \/
                           (Done(1) /\ StatusOf(1) = "failed_install" /\ AtOriginal(1))
              /\ Len(calls[1]) >= 2 => calls[1][2] = RunTests
              /\ Done(1) /\ StatusOf(1) = "updated" =>
                    /\ calls[1] = <<InstallTarget(1), RunTests>>
                    /\ workers[1].result.test_passed
                    /\ installed[1] = InstalledAt(Gated.latest_version)

\* C29 witness: under the policy safe a package was taken back over a major
\* version, from 1.x to 0.x, its tests passed and the run returned it as updated
C29_Witness ==
    /\ config.version_policy = "safe"
    /\ BothValid /\ NotForward
    /\ Gated.version.release[1] = 1
    /\ Gated.latest_version.release[1] = 0
    /\ spc = "returned"
    /\ Len(session.results) = 1
    /\ session.results[1].status = "updated"
    /\ calls[1] = <<InstallTarget(1), RunTests>>
    /\ installed[1] = InstalledAt(Gated.latest_version)

====
